---- MODULE Spec2Model ----
(***************************************************************************)
(* State-machine model of the ImageView component of src/index.js: the     *)
(* gesture handlers (start / move / release), the double-tap timer, the    *)
(* scroll handler onNextImage, close(), componentWillReceiveProps and the  *)
(* asynchronous image-size fetch.                                          *)
(*                                                                         *)
(* Numbers.  The scale of an image is compared with === and !== by the     *)
(* code and the background opacity with > 0, so scales and opacities are   *)
(* modelled as the IEEE-754 doubles JavaScript computes: a sign, a 53-bit  *)
(* significand and an exponent, with every operation rounded to nearest,   *)
(* ties to even.  The other numbers (a translate, a displacement, a        *)
(* velocity) are kept in fixed point, as an integer count of 1/Unit; image *)
(* and screen sizes and touch coordinates are whole pixels.  NaN and       *)
(* undefined are distinguished values with JavaScript's comparison rules.  *)
(*                                                                         *)
(* Animations.  An Animated value holds its current value and, while a     *)
(* timing animation runs on it, the animation's fromValue and toValue.     *)
(* A frame sets the value to fromValue + easing(t) * (toValue - fromValue) *)
(* for the time t it comes at, the last frame with easing(1) = 1.          *)
(* Starting an animation on, or setting, an Animated value stops the       *)
(* animation running on it and runs that animation's callback; stopping    *)
(* one animation of an Animated.parallel stops the others where they are.  *)
(*                                                                         *)
(* A handler is one action.  What a handler computes once and uses several *)
(* times (const scale = ...) is bound by \E over a one-element set.        *)
(***************************************************************************)
EXTENDS Integers, Sequences, FiniteSets, TLC

\* One unit of a fixed-point number (four decimal places).
Unit == 10 * 10 * 10 * 10

\* The value NaN: outside every range the model computes.
NaN == 0 - (2 * Unit * Unit * 10)

\* The value undefined (a width or height an image does not have).
Undefined == NaN - 1

IsNaN(a) == a = NaN

\* JavaScript a === b on numbers: NaN equals nothing.
StrictEq(a, b) == ~IsNaN(a) /\ ~IsNaN(b) /\ a = b

\* JavaScript !v on a width or height: undefined and 0 are falsy.
Falsy(v) == v = Undefined \/ v = 0

\* A default parameter (imageWidth: number = 0) replaces undefined.
Default(v) == IF v = Undefined THEN 0 ELSE v

Abs(a) == IF a < 0 THEN 0 - a ELSE a

(************************* IEEE-754 doubles ********************************)
\* A double is [sign, man, exp]: the number sign * man * 2^exp, with sign in
\* {-1, 0, 1} and man the 53-bit significand (2^52 <= man < 2^53) written
\* in four limbs of 14 bits, least significant first.  Intermediate results
\* are exact integers of up to eight limbs.
Base == 128 * 128

Pow2Tab == << 1, 2, 4, 8, 16, 32, 64, 128, 256, 512, 1024, 2048, 4096, 8192, 16384 >>

Pow2(n) == Pow2Tab[n + 1]

Limb(K, i) == IF i >= 1 /\ i <= Len(K) THEN K[i] ELSE 0

RECURSIVE TopFrom(_, _)
TopFrom(K, i) == IF i = 0 THEN 0 ELSE IF K[i] # 0 THEN i ELSE TopFrom(K, i - 1)

RECURSIVE BitsOf(_)
BitsOf(n) == IF n = 0 THEN 0 ELSE IF n >= 128 THEN 7 + BitsOf(n \div 128) ELSE 1 + BitsOf(n \div 2)

\* The number of significant bits of K.
BitLen(K) ==
  LET t == TopFrom(K, Len(K))
  IN IF t = 0 THEN 0 ELSE 14 * (t - 1) + BitsOf(K[t])

\* K * 2^n and K \div 2^n, in len limbs.
ShiftLeft(K, n, len) ==
  LET q == n \div 14
      p == Pow2(n % 14)
  IN [i \in 1..len |->
        ((Limb(K, i - q) * p) % Base) + ((Limb(K, i - q - 1) * p) \div Base)]

ShiftRight(K, n, len) ==
  LET q == n \div 14
      r == n % 14
  IN [i \in 1..len |->
        (Limb(K, i + q) \div Pow2(r)) + (Limb(K, i + q + 1) % Pow2(r)) * Pow2(14 - r)]

\* Bit n of K, and whether a bit below bit n is set.
Bit(K, n) == (Limb(K, n \div 14 + 1) \div Pow2(n % 14)) % 2

LowBits(K, n) ==
  \/ \E i \in 1..(n \div 14) : K[i] # 0
  \/ Limb(K, n \div 14 + 1) % Pow2(n % 14) # 0

RECURSIVE AddFrom(_, _, _, _)
AddFrom(K1, K2, i, carry) ==
  IF i > Len(K1)
  THEN << >>
  ELSE LET t == K1[i] + Limb(K2, i) + carry
       IN << t % Base >> \o AddFrom(K1, K2, i + 1, t \div Base)

BigAdd(K1, K2) == AddFrom(K1, K2, 1, 0)

RECURSIVE SubFrom(_, _, _, _)
SubFrom(K1, K2, i, borrow) ==
  IF i > Len(K1)
  THEN << >>
  ELSE LET t == K1[i] - K2[i] - borrow
       IN IF t < 0
          THEN << t + Base >> \o SubFrom(K1, K2, i + 1, 1)
          ELSE << t >> \o SubFrom(K1, K2, i + 1, 0)

BigSub(K1, K2) == SubFrom(K1, K2, 1, 0)

RECURSIVE CmpFrom(_, _, _)
CmpFrom(K1, K2, i) ==
  IF i = 0
  THEN 0
  ELSE IF K1[i] < K2[i]
       THEN 0 - 1
       ELSE IF K1[i] > K2[i] THEN 1 ELSE CmpFrom(K1, K2, i - 1)

BigCmp(K1, K2) == CmpFrom(K1, K2, Len(K1))

\* The product of two integers of four limbs.
BigMul(a, b) ==
  LET c1 == a[1] * b[1]
      c2 == a[1] * b[2] + a[2] * b[1] + c1 \div Base
      c3 == a[1] * b[3] + a[2] * b[2] + a[3] * b[1] + c2 \div Base
      c4 == a[1] * b[4] + a[2] * b[3] + a[3] * b[2] + a[4] * b[1] + c3 \div Base
      c5 == a[2] * b[4] + a[3] * b[3] + a[4] * b[2] + c4 \div Base
      c6 == a[3] * b[4] + a[4] * b[3] + c5 \div Base
      c7 == a[4] * b[4] + c6 \div Base
  IN << c1 % Base, c2 % Base, c3 % Base, c4 % Base, c5 % Base, c6 % Base,
        c7 % Base, c7 \div Base >>

Zero == [sign |-> 0, man |-> << 0, 0, 0, 0 >>, exp |-> 0]

\* The 53 bits T of a significand with a carry into bit 54.
Carry(sign, U, exp) ==
  IF BitLen(U) = 54
  THEN [sign |-> sign, man |-> ShiftRight(U, 1, 4), exp |-> exp + 1]
  ELSE [sign |-> sign, man |-> U, exp |-> exp]

\* Round to nearest, ties to even: T are the bits kept, half the first bit
\* cut off, rest whether anything lies beyond it.
RoundUp(sign, T, exp, half, rest) ==
  IF half /\ (rest \/ T[1] % 2 = 1)
  THEN Carry(sign, BigAdd(T, << 1 >>), exp)
  ELSE [sign |-> sign, man |-> T, exp |-> exp]

RoundBits(sign, K, exp, sticky, L) ==
  IF L = 0
  THEN Zero
  ELSE IF L <= 53
       THEN [sign |-> sign, man |-> ShiftLeft(K, 53 - L, 4), exp |-> exp - (53 - L)]
       ELSE RoundUp(sign, ShiftRight(K, L - 53, 4), exp + (L - 53),
                    Bit(K, L - 54) = 1, sticky \/ LowBits(K, L - 54))

\* The double nearest to sign * K * 2^exp (ties to even); sticky tells that
\* the exact number is a little above K * 2^exp.
RoundTo53(sign, K, exp, sticky) == RoundBits(sign, K, exp, sticky, BitLen(K))

\* The double of an integer 0 <= n < Base * Base.
FromInt(n) == RoundTo53(1, << n % Base, n \div Base >>, 0, FALSE)

FNeg(a) == [a EXCEPT !.sign = 0 - a.sign]

\* Math.abs
FAbs(a) == [a EXCEPT !.sign = IF a.sign = 0 THEN 0 ELSE 1]

\* a * b
FMul(a, b) ==
  IF a.sign = 0 \/ b.sign = 0
  THEN Zero
  ELSE RoundTo53(a.sign * b.sign, BigMul(a.man, b.man), a.exp + b.exp, FALSE)

\* sa * A + sb * B as a sign and a magnitude.
Sum(sa, A, sb, B) ==
  IF sa = sb
  THEN [sign |-> sa, K |-> BigAdd(A, B)]
  ELSE IF BigCmp(A, B) >= 0
       THEN [sign |-> sa, K |-> BigSub(A, B)]
       ELSE [sign |-> sb, K |-> BigSub(B, A)]

Rounded(m, exp) == RoundTo53(m.sign, m.K, exp, FALSE)

\* a + b with both significands written at the exponent e
Aligned(a, b, e) ==
  Rounded(Sum(a.sign, ShiftLeft(a.man, a.exp - e, 8),
              b.sign, ShiftLeft(b.man, b.exp - e, 8)), e)

\* a + b
FAdd(a, b) ==
  IF a.sign = 0 THEN b
  ELSE IF b.sign = 0 THEN a
  ELSE IF a.exp - b.exp > 56 THEN a
  ELSE IF b.exp - a.exp > 56 THEN b
  ELSE Aligned(a, b, IF a.exp < b.exp THEN a.exp ELSE b.exp)

\* a - b
FSub(a, b) == IF a = b THEN Zero ELSE FAdd(a, FNeg(b))

\* a < b for doubles above zero: by the exponent, then by the significand.
Below(a, b) ==
  \/ a.exp < b.exp
  \/ a.exp = b.exp /\ BigCmp(a.man, b.man) < 0

\* a < b
FLt(a, b) ==
  IF a.sign # b.sign
  THEN a.sign < b.sign
  ELSE IF a.sign = 1 THEN Below(a, b) ELSE IF a.sign = 0 THEN FALSE ELSE Below(b, a)

RECURSIVE DivDigits(_, _, _)
DivDigits(r, b, n) ==
  IF n = 0
  THEN << >>
  ELSE DivDigits((r * Base) % b, b, n - 1) \o << (r * Base) \div b >>

RECURSIVE DivRem(_, _, _)
DivRem(r, b, n) == IF n = 0 THEN r ELSE DivRem((r * Base) % b, b, n - 1)

\* a / b for integers 0 <= a and 0 < b < Base.
FDivInt(a, b) ==
  RoundTo53(1, DivDigits(a % b, b, 7) \o << a \div b >>, 0 - 98,
            DivRem(a % b, b, 7) # 0)

\* K * 2^(-n) rounded to the nearest integer, as a number.
Nearest(K, n) ==
  IF n <= 0
  THEN ShiftLeft(K, 0 - n, 3)
  ELSE BigAdd(ShiftRight(K, n, 3), << Bit(K, n - 1) >>)

Number(T) == T[1] + T[2] * Base + T[3] * Base * Base

\* The fixed-point number nearest to a double 0 <= d.
ToFixed(d) ==
  IF d.sign = 0
  THEN 0
  ELSE Number(Nearest(BigMul(<< Unit, 0, 0, 0 >>, d.man), 0 - d.exp))

(************************** program constants ******************************)
IMAGE_SPEED_FOR_CLOSE == (11 * Unit) \div 10
SCALE_MAXIMUM == FromInt(5)
SCALE_EPSILON == FDivInt(1, 100)
SCALE_MULTIPLIER == FDivInt(12, 10)
SCALE_MAX_MULTIPLIER == FromInt(3)
FREEZE_SCROLL_DISTANCE == 15 * Unit
BACKGROUND_OPACITY_MULTIPLIER == FDivInt(3, 1000)
FLY_OUT_DISTANCE == 400

\* Dimensions.get('window') of the device the model runs on, in pixels.
screenWidth == 400
screenHeight == 800

(******************************* bounds ************************************)
\* Handler and callback runs the model follows after construction: with
\* images that all have a size, with images that lack one, and under taps
\* and pinches alone.
MaxEvents == 5

MaxFetchEvents == 4

MaxZoomEvents == 7

(******************************* inputs ************************************)
\* An image of props.images: its declared size (Undefined when the size is
\* missing), whether it has a source uri, and the size Image.getSize reports
\* for it.
Img(w, h, aw, ah) == [width |-> w, height |-> h, uri |-> TRUE, actualWidth |-> aw, actualHeight |-> ah]

\* The props.images lists the component is constructed with or receives.
ImageLists ==
  << \* all sizes given: a tall portrait image and a small landscape image
     << Img(200, 1000, 200, 1000), Img(200, 100, 200, 100) >>,
     \* a small landscape image between two small images whose sizes must be
     \* fetched (a portrait one and a landscape one)
     << Img(Undefined, Undefined, 50, 100), Img(60, 40, 60, 40),
        Img(Undefined, Undefined, 40, 20) >>,
     \* all sizes given: one wide landscape image
     << Img(1000, 200, 1000, 200) >> >>

\* nextProps.imageIndex is 0 or 1: an image of every list, or beyond the
\* list of one image.
MaxImageIndex == 1

Point(px, py) == [pageX |-> px, pageY |-> py]

\* event.touches of onPanResponderGrant: one finger, or two fingers 10 or
\* 240 px apart.
StartTouches ==
  { << Point(0, 0) >>,
    << Point(0, 0), Point(6, 8) >>,
    << Point(0, 0), Point(144, 192) >> }

\* event.touches of onPanResponderMove: one finger, or two fingers 10 or
\* 201 px apart.
MoveTouches ==
  { << Point(0, 0) >>,
    << Point(0, 0), Point(6, 8) >>,
    << Point(0, 0), Point(201, 0) >> }

\* gestureState.dx and gestureState.dy (pixels, in fixed point): no movement,
\* or a swipe across the screen to the right and up.
Displacements ==
  { [dx |-> 0, dy |-> 0],
    [dx |-> screenWidth * Unit, dy |-> 0 - screenHeight * Unit] }

\* gestureState.vy at release.
Velocities == { 0 - IMAGE_SPEED_FOR_CLOSE, Unit }

\* contentOffset.x of a scroll event, in pixels.
ScrollOffsets == { 0 - 250, 0, 30, 200, 400, 800 }

\* easing((now - startTime) / duration) at a frame of a timing animation
\* that is not its last: early, half way and late in the animation.
Progress ==
  << [num |-> 4, den |-> 75], [num |-> 1, den |-> 2], [num |-> 29, den |-> 30] >>

(*************************** pure functions ********************************)
pow2abs(a, b) == Abs(a - b) * Abs(a - b)

\* Math.sqrt on the perfect squares the inputs produce, by bisection:
\* the r in lo..hi with r * r <= n < (r + 1) * (r + 1).
RECURSIVE SqrtIn(_, _, _)
SqrtIn(n, lo, hi) ==
  IF lo = hi
  THEN lo
  ELSE LET mid == (lo + hi + 1) \div 2
       IN IF mid * mid <= n THEN SqrtIn(n, mid, hi) ELSE SqrtIn(n, lo, mid - 1)

Sqrt(n) == SqrtIn(n, 0, 2 * (screenWidth + screenHeight))

getDistance(touches) ==
  IF Len(touches) < 2
  THEN 0
  ELSE Sqrt(pow2abs(touches[1].pageX, touches[2].pageX)
            + pow2abs(touches[1].pageY, touches[2].pageY))

\* currentDistance / initialDistance * SCALE_MULTIPLIER
getScale(currentDistance, initialDistance) ==
  FMul(FDivInt(currentDistance, initialDistance), SCALE_MULTIPLIER)

\* Lines 461-465: nextScale clamped into [imageInitialScale, SCALE_MAXIMUM].
ClampScale(nextScale, imageInitialScale) ==
  IF FLt(nextScale, imageInitialScale)
  THEN imageInitialScale
  ELSE IF FLt(SCALE_MAXIMUM, nextScale) THEN SCALE_MAXIMUM ELSE nextScale

calculateInitialScale(width, height) ==
  \* with imageWidth = 0 the image ratio is Infinity or NaN and
  \* screenRatio > imageRatio is false
  LET imageWidth == Default(width)
      imageHeight == Default(height)
      screenRatio == FDivInt(screenHeight, screenWidth)
  IN IF imageWidth > screenWidth \/ imageHeight > screenHeight
     THEN IF imageWidth > 0 /\ FLt(FDivInt(imageHeight, imageWidth), screenRatio)
          THEN FDivInt(screenWidth, imageWidth)
          ELSE FDivInt(screenHeight, imageHeight)
     ELSE FromInt(1)

calculateInitalTranslate(width, height) ==
  LET imageWidth == Default(width)
      imageHeight == Default(height)
      getTranslate(imageSize, screenSize) ==
        IF imageWidth >= imageHeight
        THEN ((screenSize - imageSize) * Unit) \div 2
        ELSE (screenSize * Unit) \div 2 - (imageSize * Unit) \div 2
  IN [x |-> getTranslate(imageWidth, screenWidth),
      y |-> getTranslate(imageHeight, screenHeight)]

getInitalParams(image) ==
  [scale |-> calculateInitialScale(image.width, image.height),
   translate |-> calculateInitalTranslate(image.width, image.height)]

\* Lines 228-229; equal doubles differ by 0.
scalesAreEqual(scaleA, scaleB) ==
  scaleA = scaleB \/ FLt(FAbs(FSub(scaleA, scaleB)), SCALE_EPSILON)

\* Math.round(x / screenWidth): the nearest integer, halves rounded up.
Round(num, den) == (2 * num + den) \div (2 * den)

\* JavaScript's %: the result has the sign of the dividend.
JsRem(a, b) == IF a >= 0 THEN a % b ELSE 0 - ((0 - a) % b)

\* images.filter(({width, height}) => !width || !height), as the indices kept.
getImagesWithoutSize(imgs) ==
  SelectSeq([i \in 1..Len(imgs) |-> i],
            LAMBDA i : Falsy(imgs[i].width) \/ Falsy(imgs[i].height))

\* fetchImageSize(images): one request per image of the list it is given that
\* has a uri and lacks a size; each resolves to the size of that image's uri
\* and `index`, the image's position in the list it was given (0-based).
fetchImageSize(imgs, given) ==
  { [index |-> k - 1,
     width |-> imgs[given[k]].actualWidth,
     height |-> imgs[given[k]].actualHeight] :
    k \in { j \in 1..Len(given) :
              /\ imgs[given[j]].uri
              /\ (Falsy(imgs[given[j]].width) \/ Falsy(imgs[given[j]].height)) } }

\* setSizeForImages(nextImages): state.images with the size of each entry of
\* nextImages written to the image at position entry.index.
setSizeForImages(imgs, nextImages) ==
  [i \in 1..Len(imgs) |->
     IF \E n \in nextImages : n.index = i - 1
     THEN LET n == CHOOSE m \in nextImages : m.index = i - 1
          IN [imgs[i] EXCEPT !.width = n.width, !.height = n.height]
     ELSE imgs[i]]

\* TimingAnimation's frame for a scale:
\* fromValue + easing(t) * (toValue - fromValue), with easing(t) = p.
Frame(fromValue, toValue, p) ==
  FAdd(fromValue, FMul(FDivInt(p.num, p.den), FSub(toValue, fromValue)))

\* TimingAnimation's last frame for a scale:
\* fromValue + easing(1) * (toValue - fromValue), with easing(1) = 1.
LastFrame(fromValue, toValue) == FAdd(fromValue, FSub(toValue, fromValue))

\* A frame for a translate, in fixed point.
FrameFixed(fromValue, toValue, p) ==
  LET d == toValue - fromValue
  IN fromValue + (d \div p.den) * p.num + ((d % p.den) * p.num) \div p.den

VARIABLES
  cfg,                    \* which list of ImageLists is props.images
  images,                 \* state.images (the same array as props.images)
  imageInitialParams,     \* this.imageInitialParams
  isVisible,              \* state.isVisible
  imageIndex,             \* state.imageIndex (0-based)
  imageScale,             \* state.imageScale
  imageTranslate,         \* state.imageTranslate
  scrollEnabled,          \* state.scrollEnabled
  panelsVisible,          \* state.panelsVisible
  isScrolling,            \* this.isScrolling
  initialTouches,         \* this.initialTouches
  currentTouchesNum,      \* this.currentTouchesNum
  doubleTapTimer,         \* this.doubleTapTimer is not null
  timers,                 \* setTimeout callbacks scheduled and neither fired nor cleared
  modalBackgroundOpacity, \* this.modalBackgroundOpacity._value
  imageScaleValue,        \* this.imageScaleValue._value
  scaleAnimation,         \* << the 300 ms animation running on imageScaleValue >>
  imageTranslateValue,    \* this.imageTranslateValue (x._value, y._value)
  releaseAnimation,       \* << the 100 ms Animated.parallel of a release, while it runs >>
  flyOut,                 \* << the 150 ms fly-out animation running on imageTranslateValue.y >>
  batches,                \* Promise.all(fetchImageSize(...)) not yet settled
  events,                 \* handler and callback runs the model still follows
  streak,                 \* double taps in a row from the initial scale, up to the last release
  onClose                 \* calls of props.onClose made by the handler that ran last

vars ==
  << cfg, images, imageInitialParams, isVisible, imageIndex, imageScale, imageTranslate,
     scrollEnabled, panelsVisible, isScrolling, initialTouches, currentTouchesNum,
     doubleTapTimer, timers, modalBackgroundOpacity, imageScaleValue, scaleAnimation,
     imageTranslateValue, releaseAnimation, flyOut, batches, events, streak,
     onClose >>

\* One more handler or callback run, of those the model follows.
Tick == events > 0 /\ events' = events - 1

\* The calls of props.onClose a handler run makes: one when it runs close()
\* (lines 677-683), directly or through the callback of a fly-out it stops.
Calls(closed) == IF closed THEN 1 ELSE 0

\* this.imageInitialParams[index] is an object, and state.images[index] is.
HasParams(index) == index < Len(imageInitialParams)

HasImage(index) == index < Len(images)

\* Reading a property of undefined gives no value: the code throws a
\* TypeError.
Missing == [missing |-> TRUE]

\* Lines 589-599.  The handlers test HasParams before they call these.
getInitialScale(index) ==
  IF HasParams(index) THEN imageInitialParams[index + 1].scale ELSE Missing

getInitialTranslate(index) ==
  IF HasParams(index) THEN imageInitialParams[index + 1].translate ELSE Missing

\* A Promise.all over the requests fetchImageSize makes for the images
\* without size, with the array it resolves to once every Image.getSize
\* has succeeded; <<>> when there are no images without size.
Fetch(imgs, path, index) ==
  LET given == getImagesWithoutSize(imgs)
      results == fetchImageSize(imgs, given)
  IN IF Len(given) = 0
     THEN << >>
     ELSE << [path |-> path, imageIndex |-> index, results |-> results] >>

\* The lists of ImageLists in which every image has a size, and the others.
SizedLists == { c \in 1..Len(ImageLists) : Len(getImagesWithoutSize(ImageLists[c])) = 0 }

UnsizedLists == { c \in 1..Len(ImageLists) : Len(getImagesWithoutSize(ImageLists[c])) > 0 }

\* The state the constructor leaves (lines 232-289) for props.images the
\* list cfg and props.imageIndex any image of it, with n handler and
\* callback runs to follow.
Constructed(n) ==
  /\ images = ImageLists[cfg]
  /\ imageIndex \in 0..(Len(images) - 1)
  /\ imageInitialParams = [i \in 1..Len(images) |-> getInitalParams(images[i])]
  /\ isVisible = TRUE
  /\ imageScale = FromInt(1)
  /\ imageTranslate = [x |-> 0, y |-> 0]
  /\ scrollEnabled = TRUE
  /\ panelsVisible = TRUE
  /\ isScrolling = FALSE
  /\ initialTouches = << >>
  /\ currentTouchesNum = 0
  /\ doubleTapTimer = FALSE
  /\ timers = 0
  /\ modalBackgroundOpacity = Zero
  /\ imageScaleValue = getInitialScale(imageIndex)
  /\ scaleAnimation = << >>
  /\ imageTranslateValue = getInitialTranslate(imageIndex)
  /\ releaseAnimation = << >>
  /\ flyOut = << >>
  /\ batches = Fetch(images, "constructor", 0)
  /\ streak = 0
  /\ onClose = 0
  /\ events = n

Init == cfg \in SizedLists /\ Constructed(MaxEvents)

InitFetch == cfg \in UnsizedLists /\ Constructed(MaxFetchEvents)

InitZoom == cfg \in SizedLists /\ Constructed(MaxZoomEvents)

(****************************** gestures ***********************************)
onGestureStart(touches) ==
  /\ Tick
  /\ initialTouches' = touches
  /\ currentTouchesNum' = Len(touches)
  /\ onClose' = Calls(FALSE)
  /\ UNCHANGED << cfg, images, imageInitialParams, isVisible, imageIndex, imageScale,
                  imageTranslate, scrollEnabled, panelsVisible, isScrolling,
                  doubleTapTimer, timers, modalBackgroundOpacity, imageScaleValue,
                  scaleAnimation, imageTranslateValue, releaseAnimation, flyOut,
                  batches, streak >>

MovesHorizontallyAlways(scale, imageInitialScale) == TRUE

\* Line 421: the image follows the finger horizontally.
MovesHorizontally(scale, imageInitialScale) == scale # imageInitialScale

\* Line 426: the scaled image is taller than the screen (with height
\* undefined the product is NaN and the comparison is false).
TallerThanScreen(scale, height) ==
  height # Undefined /\ FLt(FromInt(screenHeight), FMul(scale, FromInt(height)))

\* Lines 431-434: the image is not scaled and fits to the screen.
NotScaledAndFits(scale, imageInitialScale, height) ==
  /\ scalesAreEqual(scale, imageInitialScale)
  /\ height # Undefined
  /\ FLt(FMul(FromInt(height), imageInitialScale), FromInt(screenHeight))

\* Lines 435-441: Math.abs(dy * BACKGROUND_OPACITY_MULTIPLIER), 1 at most.
AtMostOne(backgroundOpacity) ==
  IF FLt(FromInt(1), backgroundOpacity) THEN FromInt(1) ELSE backgroundOpacity

BackgroundOpacity(dy) ==
  AtMostOne(FMul(FDivInt(Abs(dy), Unit), BACKGROUND_OPACITY_MULTIPLIER))

onGestureMove(touches, dx, dy) ==
  /\ Tick
  /\ UNCHANGED << cfg, images, imageInitialParams, imageIndex, imageScale,
                  imageTranslate, panelsVisible, isScrolling, doubleTapTimer,
                  timers, batches >>
  /\ IF isScrolling
     THEN /\ onClose' = Calls(FALSE)
          /\ UNCHANGED << isVisible, scrollEnabled, initialTouches, currentTouchesNum,
                          modalBackgroundOpacity, imageScaleValue, scaleAnimation,
                          imageTranslateValue, releaseAnimation, flyOut, streak >>
     ELSE IF ~(HasParams(imageIndex) /\ HasImage(imageIndex))
     \* this.getInitialScale() (line 418) or the destructuring of
     \* images[imageIndex] (line 419) throws a TypeError, after lines 410-412
     THEN /\ initialTouches' = IF currentTouchesNum = 1 /\ Len(touches) = 2
                               THEN touches
                               ELSE initialTouches
          /\ onClose' = Calls(FALSE)
          /\ UNCHANGED << isVisible, scrollEnabled, currentTouchesNum,
                          modalBackgroundOpacity, imageScaleValue, scaleAnimation,
                          imageTranslateValue, releaseAnimation, flyOut, streak >>
     ELSE LET rebased == IF currentTouchesNum = 1 /\ Len(touches) = 2
                         THEN touches
                         ELSE initialTouches
              imageInitialScale == getInitialScale(imageIndex)
              height == images[imageIndex + 1].height
              moveX == MovesHorizontally(imageScale, imageInitialScale)
              currentDistance == getDistance(touches)
              initialDistance == getDistance(rebased)
              pinch == initialDistance # 0 /\ Len(touches) >= 2
          IN /\ initialTouches' = rebased
             /\ scrollEnabled' = (Abs(dy) < FREEZE_SCROLL_DISTANCE)
             /\ scaleAnimation' = IF pinch THEN << >> ELSE scaleAnimation
             /\ currentTouchesNum' = IF pinch THEN Len(touches) ELSE currentTouchesNum
             /\ streak' = IF pinch THEN 0 ELSE streak
             /\ imageScaleValue' =
                  IF pinch
                  THEN ClampScale(FMul(getScale(currentDistance, initialDistance), imageScale),
                                  imageInitialScale)
                  ELSE imageScaleValue
             /\ \E fits \in { NotScaledAndFits(imageScale, imageInitialScale, height) } :
                \E moveY \in { TallerThanScreen(imageScale, height) \/ fits } :
                \* imageTranslateValue.y.setValue stops a running fly-out
                \E stopped \in { flyOut # << >> /\ moveY } :
                /\ imageTranslateValue' =
                     [x |-> IF moveX THEN imageTranslate.x + dx ELSE imageTranslateValue.x,
                      y |-> IF moveY THEN imageTranslate.y + dy ELSE imageTranslateValue.y]
                /\ modalBackgroundOpacity' =
                     IF fits THEN BackgroundOpacity(dy) ELSE modalBackgroundOpacity
                \* a setValue on x, y or the opacity stops the release's parallel
                /\ releaseAnimation' = IF moveX \/ moveY THEN << >> ELSE releaseAnimation
                /\ flyOut' = IF stopped THEN << >> ELSE flyOut
                /\ isVisible' = (isVisible /\ ~stopped)
                /\ onClose' = Calls(stopped)

\* Lines 663-671: nextTranslate kept at or below leftLimit, then at or
\* above rightLimit.
Limited(nextTranslate, leftLimit, rightLimit) ==
  IF nextTranslate > leftLimit
  THEN (IF leftLimit < rightLimit THEN rightLimit ELSE leftLimit)
  ELSE (IF nextTranslate < rightLimit THEN rightLimit ELSE nextTranslate)

\* rightLimit = screenSize - imageSize - leftLimit (line 646).
WithinLimits(imageSize, screenSize, nextTranslate, leftLimit) ==
  Limited(nextTranslate, leftLimit, screenSize * Unit - imageSize * Unit - leftLimit)

\* Lines 650-671, with scaled = scale * imageSize.
TranslateOf(imageSize, screenSize, width, height, nextTranslate, scaled) ==
  IF FLt(scaled, FromInt(screenSize))
  THEN IF width # Undefined /\ height # Undefined /\ width >= height
       THEN ((screenSize - imageSize) * Unit) \div 2
       ELSE NaN
  ELSE WithinLimits(imageSize, screenSize, nextTranslate,
                    (ToFixed(scaled) - imageSize * Unit) \div 2)

\* Lines 642-672: getTranslate of calcultateNextTranslate for one axis.
\* `const {imageInitialScale} = this.getInitialScale()` destructures a number,
\* so imageInitialScale is undefined and scale / imageInitialScale is NaN.
\* With imageSize undefined both limits are NaN and every comparison is
\* false: the translate is returned as it is.
getTranslate(imageSize, screenSize, width, height, translate, delta, scale) ==
  IF imageSize = Undefined
  THEN translate + delta
  ELSE TranslateOf(imageSize, screenSize, width, height, translate + delta,
                   FMul(scale, FromInt(imageSize)))

calcultateNextTranslate(dx, dy, scale) ==
  LET width == images[imageIndex + 1].width
      height == images[imageIndex + 1].height
  IN [x |-> getTranslate(width, screenWidth, width, height, imageTranslate.x, dx, scale),
      y |-> getTranslate(height, screenHeight, width, height, imageTranslate.y, dy, scale)]

DoubleTapScaleAlwaysZoom(imageInitialScale, scale) == FMul(scale, SCALE_MAX_MULTIPLIER)

\* Lines 489-491: the scale a double tap animates to.
DoubleTapScale(imageInitialScale, scale) ==
  IF scalesAreEqual(imageInitialScale, scale)
  THEN FMul(scale, SCALE_MAX_MULTIPLIER)
  ELSE imageInitialScale

ShouldCloseAnyScale(scale, imageInitialScale, vy) == Abs(vy) >= IMAGE_SPEED_FOR_CLOSE

\* Lines 541-544: image not scaled and high vertical gesture speed.
ShouldClose(scale, imageInitialScale, vy) ==
  scale = imageInitialScale /\ Abs(vy) >= IMAGE_SPEED_FOR_CLOSE

KeepTimeout(n) == n

\* clearTimeout(this.doubleTapTimer): the scheduled callback is dropped.
ClearTimeout(n) == n - 1

\* Animated.timing(value, {toValue}).start(): the animation runs from the
\* value's current value; no frame has come yet.
Timing(fromValue, toValue) == [fromValue |-> fromValue, toValue |-> toValue, at |-> 0]

\* Lines 507-557 of onGestureRelease, for the scale the tap handling leaves
\* and the translate calcultateNextTranslate returns.
ReleaseTo(dx, dy, vy, scale, next) ==
  LET imageInitialScale == getInitialScale(imageIndex)
      imageInitialTranslate == getInitialTranslate(imageIndex)
      nextScrollEnabled ==
        /\ scale = getInitialScale(imageIndex)
        /\ StrictEq(next.x, imageInitialTranslate.x)
        /\ StrictEq(next.y, imageInitialTranslate.y)
      x == IF IsNaN(next.x) THEN imageInitialTranslate.x ELSE next.x
      y == IF IsNaN(next.y) THEN imageInitialTranslate.y ELSE next.y
      flick == ShouldClose(scale, imageInitialScale, vy)
  IN \* Animated.parallel of the timings to 0 (opacity, when it is above 0),
     \* x and y; the fly-out timing started on y stops the parallel's y
     \* timing and with it the whole parallel, before any frame
     /\ releaseAnimation' =
          IF flick
          THEN << >>
          ELSE << [x |-> Timing(imageTranslateValue.x, x),
                   y |-> Timing(imageTranslateValue.y, y),
                   opacity |-> IF FLt(Zero, modalBackgroundOpacity)
                               THEN << Timing(modalBackgroundOpacity, Zero) >>
                               ELSE << >>,
                   at |-> 0] >>
     /\ flyOut' =
          IF flick
          THEN << Timing(imageTranslateValue.y, y + FLY_OUT_DISTANCE * vy) >>
          ELSE << >>
     /\ imageTranslate' = [x |-> x, y |-> y]
     /\ scrollEnabled' = nextScrollEnabled

\* onGestureRelease, lines 471-558.  With state.imageIndex beyond
\* this.imageInitialParams, getInitialScale() throws a TypeError at line 478
\* and nothing is done; with state.imageIndex beyond state.images,
\* calcultateNextTranslate throws at line 639, after the tap handling.
onGestureRelease(dx, dy, vy) ==
  /\ Tick
  /\ UNCHANGED << cfg, images, imageInitialParams, imageIndex, isScrolling,
                  initialTouches, currentTouchesNum, imageScaleValue,
                  modalBackgroundOpacity, imageTranslateValue, batches >>
  /\ IF ~HasParams(imageIndex)
     THEN /\ onClose' = Calls(FALSE)
          /\ streak' = 0
          /\ UNCHANGED << isVisible, imageScale, imageTranslate, scrollEnabled,
                          panelsVisible, doubleTapTimer, timers, scaleAnimation,
                          releaseAnimation, flyOut >>
     ELSE
     \E isTap \in { dx = 0 /\ dy = 0 /\ scalesAreEqual(imageScale, imageScaleValue) } :
     \E scale \in { IF isTap /\ doubleTapTimer
                    THEN DoubleTapScale(getInitialScale(imageIndex), imageScaleValue)
                    ELSE imageScaleValue } :
     LET scaleValue == imageScaleValue
         imageInitialScale == getInitialScale(imageIndex)
         isDoubleTap == isTap /\ doubleTapTimer
     IN /\ doubleTapTimer' = IF isTap THEN ~doubleTapTimer ELSE doubleTapTimer
        /\ timers' = IF isDoubleTap THEN ClearTimeout(timers)
                     ELSE IF isTap THEN timers + 1 ELSE timers
        /\ scaleAnimation' =
             IF isDoubleTap THEN << Timing(scaleValue, scale) >> ELSE scaleAnimation
        /\ panelsVisible' = IF isDoubleTap THEN (scale = imageInitialScale) ELSE panelsVisible
        /\ IF HasImage(imageIndex)
           THEN /\ imageScale' = scale
                \* the 100 ms timing started on imageTranslateValue.y stops a
                \* running fly-out, whose callback runs close()
                /\ isVisible' = (isVisible /\ flyOut = << >>)
                /\ onClose' = Calls(flyOut # << >>)
                /\ \E next \in { calcultateNextTranslate(dx, dy, scale) } :
                     ReleaseTo(dx, dy, vy, scale, next)
                /\ streak' =
                     IF isDoubleTap
                     THEN (IF imageScale = imageInitialScale /\ scaleValue = imageInitialScale
                           THEN 1
                           ELSE IF streak = 1 /\ scaleAnimation = << >> THEN 2 ELSE 0)
                     ELSE IF isTap /\ streak = 1 THEN 1 ELSE 0
           ELSE /\ onClose' = Calls(FALSE)
                /\ streak' = 0
                /\ UNCHANGED << isVisible, imageScale, imageTranslate, scrollEnabled,
                                releaseAnimation, flyOut >>

\* The 200 ms double-tap timer fires (lines 500-503).
DoubleTapTimerFires ==
  /\ Tick
  /\ timers > 0
  /\ panelsVisible' = ~panelsVisible
  /\ doubleTapTimer' = FALSE
  /\ timers' = timers - 1
  /\ onClose' = Calls(FALSE)
  /\ UNCHANGED << cfg, images, imageInitialParams, isVisible, imageIndex, imageScale,
                  imageTranslate, scrollEnabled, isScrolling, initialTouches,
                  currentTouchesNum, modalBackgroundOpacity, imageScaleValue,
                  scaleAnimation, imageTranslateValue, releaseAnimation, flyOut,
                  batches, streak >>

\* A frame of the 300 ms animation of imageScaleValue (lines 493-496) that
\* is not its last: the i-th of Progress, later than the frames before it.
ScaleAnimationFrame(i) ==
  /\ Tick
  /\ scaleAnimation # << >>
  /\ i \in DOMAIN Progress
  /\ i > scaleAnimation[1].at
  /\ imageScaleValue' =
       Frame(scaleAnimation[1].fromValue, scaleAnimation[1].toValue, Progress[i])
  /\ scaleAnimation' = << [scaleAnimation[1] EXCEPT !.at = i] >>
  /\ onClose' = Calls(FALSE)
  /\ UNCHANGED << cfg, images, imageInitialParams, isVisible, imageIndex, imageScale,
                  imageTranslate, scrollEnabled, panelsVisible, isScrolling,
                  initialTouches, currentTouchesNum, doubleTapTimer, timers,
                  modalBackgroundOpacity, imageTranslateValue, releaseAnimation, flyOut,
                  batches, streak >>

\* The last frame of the 300 ms animation of imageScaleValue (lines 493-496).
ScaleAnimationEnds ==
  /\ Tick
  /\ scaleAnimation # << >>
  /\ imageScaleValue' = LastFrame(scaleAnimation[1].fromValue, scaleAnimation[1].toValue)
  /\ scaleAnimation' = << >>
  /\ onClose' = Calls(FALSE)
  /\ UNCHANGED << cfg, images, imageInitialParams, isVisible, imageIndex, imageScale,
                  imageTranslate, scrollEnabled, panelsVisible, isScrolling,
                  initialTouches, currentTouchesNum, doubleTapTimer, timers,
                  modalBackgroundOpacity, imageTranslateValue, releaseAnimation, flyOut,
                  batches, streak >>

\* A frame of the 100 ms Animated.parallel of a release (lines 521-538) that
\* is not its last: x, y and, when it is animated, the opacity move together.
ReleaseAnimationFrame(i) ==
  /\ Tick
  /\ releaseAnimation # << >>
  /\ i \in DOMAIN Progress
  /\ i > releaseAnimation[1].at
  /\ LET r == releaseAnimation[1]
     IN /\ imageTranslateValue' =
             [x |-> FrameFixed(r.x.fromValue, r.x.toValue, Progress[i]),
              y |-> FrameFixed(r.y.fromValue, r.y.toValue, Progress[i])]
        /\ modalBackgroundOpacity' =
             IF r.opacity # << >>
             THEN Frame(r.opacity[1].fromValue, r.opacity[1].toValue, Progress[i])
             ELSE modalBackgroundOpacity
        /\ releaseAnimation' = << [r EXCEPT !.at = i] >>
  /\ onClose' = Calls(FALSE)
  /\ UNCHANGED << cfg, images, imageInitialParams, isVisible, imageIndex, imageScale,
                  imageTranslate, scrollEnabled, panelsVisible, isScrolling,
                  initialTouches, currentTouchesNum, doubleTapTimer, timers,
                  imageScaleValue, scaleAnimation, flyOut, batches, streak >>

\* The last frame of the 100 ms Animated.parallel of a release
\* (lines 521-538): fromValue + 1 * (toValue - fromValue).
ReleaseAnimationEnds ==
  /\ Tick
  /\ releaseAnimation # << >>
  /\ LET r == releaseAnimation[1]
     IN /\ imageTranslateValue' = [x |-> r.x.toValue, y |-> r.y.toValue]
        /\ modalBackgroundOpacity' =
             IF r.opacity # << >>
             THEN LastFrame(r.opacity[1].fromValue, r.opacity[1].toValue)
             ELSE modalBackgroundOpacity
  /\ releaseAnimation' = << >>
  /\ onClose' = Calls(FALSE)
  /\ UNCHANGED << cfg, images, imageInitialParams, isVisible, imageIndex, imageScale,
                  imageTranslate, scrollEnabled, panelsVisible, isScrolling,
                  initialTouches, currentTouchesNum, doubleTapTimer, timers,
                  imageScaleValue, scaleAnimation, flyOut, batches, streak >>

\* A frame of the 150 ms fly-out animation (lines 545-548) that is not its
\* last.
FlyOutFrame(i) ==
  /\ Tick
  /\ flyOut # << >>
  /\ i \in DOMAIN Progress
  /\ i > flyOut[1].at
  /\ imageTranslateValue' =
       [imageTranslateValue EXCEPT
          !.y = FrameFixed(flyOut[1].fromValue, flyOut[1].toValue, Progress[i])]
  /\ flyOut' = << [flyOut[1] EXCEPT !.at = i] >>
  /\ onClose' = Calls(FALSE)
  /\ UNCHANGED << cfg, images, imageInitialParams, isVisible, imageIndex, imageScale,
                  imageTranslate, scrollEnabled, panelsVisible, isScrolling,
                  initialTouches, currentTouchesNum, doubleTapTimer, timers,
                  modalBackgroundOpacity, imageScaleValue, scaleAnimation,
                  releaseAnimation, batches, streak >>

\* The last frame of the 150 ms fly-out animation, after which its callback
\* runs close() (lines 545-550, 677-683).
FlyOutCompletes ==
  /\ Tick
  /\ flyOut # << >>
  /\ imageTranslateValue' = [imageTranslateValue EXCEPT !.y = flyOut[1].toValue]
  /\ flyOut' = << >>
  /\ isVisible' = FALSE
  /\ onClose' = Calls(TRUE)
  /\ UNCHANGED << cfg, images, imageInitialParams, imageIndex, imageScale,
                  imageTranslate, scrollEnabled, panelsVisible, isScrolling,
                  initialTouches, currentTouchesNum, doubleTapTimer, timers,
                  modalBackgroundOpacity, imageScaleValue, scaleAnimation,
                  releaseAnimation, batches, streak >>

\* The close button, rendered while the modal is visible, is pressed
\* (lines 741, 753-755): close().
CloseButtonPressed ==
  /\ Tick
  /\ isVisible
  /\ isVisible' = FALSE
  /\ onClose' = Calls(TRUE)
  /\ UNCHANGED << cfg, images, imageInitialParams, imageIndex, imageScale,
                  imageTranslate, scrollEnabled, panelsVisible, isScrolling,
                  initialTouches, currentTouchesNum, doubleTapTimer, timers,
                  modalBackgroundOpacity, imageScaleValue, scaleAnimation,
                  imageTranslateValue, releaseAnimation, flyOut, batches, streak >>

(******************************* scrolling *********************************)
\* onNextImage, lines 373-394.  For a page beyond the list,
\* getInitialScale(nextImageIndex) reads .scale of undefined: the handler
\* throws a TypeError at line 382, after line 379 has set isScrolling.
onNextImage(x) ==
  /\ Tick
  /\ LET nextImageIndex == Round(x, screenWidth)
         changes == imageIndex # nextImageIndex /\ nextImageIndex >= 0
         throws == changes /\ nextImageIndex >= Len(imageInitialParams)
         resets == changes /\ ~throws
         \* imageTranslateValue.setValue stops a running fly-out
         stopped == flyOut # << >> /\ resets
     IN /\ isScrolling' = (JsRem(x, screenWidth) > 10)
        /\ imageIndex' = IF resets THEN nextImageIndex ELSE imageIndex
        /\ imageScale' = IF resets THEN getInitialScale(nextImageIndex) ELSE imageScale
        /\ imageTranslate' =
             IF resets THEN getInitialTranslate(nextImageIndex) ELSE imageTranslate
        /\ imageScaleValue' =
             IF resets THEN getInitialScale(nextImageIndex) ELSE imageScaleValue
        /\ imageTranslateValue' =
             IF resets THEN getInitialTranslate(nextImageIndex) ELSE imageTranslateValue
        /\ scaleAnimation' = IF resets THEN << >> ELSE scaleAnimation
        /\ releaseAnimation' = IF resets THEN << >> ELSE releaseAnimation
        /\ flyOut' = IF resets THEN << >> ELSE flyOut
        /\ isVisible' = (isVisible /\ ~stopped)
        /\ streak' = IF resets THEN 0 ELSE streak
        /\ onClose' = Calls(stopped)
  /\ UNCHANGED << cfg, images, imageInitialParams, scrollEnabled, panelsVisible,
                  initialTouches, currentTouchesNum, doubleTapTimer, timers,
                  modalBackgroundOpacity, batches >>

(************************* props and image sizes ***************************)
\* onNextImagesReceived(images, imageIndex), lines 339-352: the initial
\* parameters are computed anew and the state and the animated values are
\* set to those of image imageIndex.  Setting imageTranslateValue stops the
\* release's parallel and a running fly-out, whose callback runs close().
onNextImagesReceived(imgs, index, visible) ==
  LET stopped == flyOut # << >>
  IN /\ imageInitialParams' = [i \in 1..Len(imgs) |-> getInitalParams(imgs[i])]
     /\ imageIndex' = index
     /\ imageScale' = imageInitialParams'[index + 1].scale
     /\ imageTranslate' = imageInitialParams'[index + 1].translate
     /\ imageScaleValue' = imageInitialParams'[index + 1].scale
     /\ scaleAnimation' = << >>
     /\ imageTranslateValue' = imageInitialParams'[index + 1].translate
     /\ releaseAnimation' = << >>
     /\ flyOut' = << >>
     /\ isVisible' = IF visible = "unchanged" THEN (isVisible /\ ~stopped) ELSE (visible = "shown")
     /\ streak' = 0
     /\ onClose' = Calls(stopped)

\* componentWillReceiveProps, lines 291-337.  nextImages is 0 for
\* nextProps.images the array of the state, or names the list of ImageLists
\* that a new array holds.  A new array becomes state.images (lines 294-296)
\* whether or not the visibility changes; this.imageInitialParams is computed
\* only when it changes.  The sizes are requested when the array is new or
\* the imageIndex is (line 304-307).  For an imageIndex beyond the list,
\* onNextImagesReceived throws a TypeError at line 341, after line 340 has
\* computed the initial parameters anew.
componentWillReceiveProps(nextImages, nextIsVisible, nextImageIndex) ==
  /\ Tick
  /\ UNCHANGED << scrollEnabled, panelsVisible, isScrolling,
                  initialTouches, currentTouchesNum, doubleTapTimer, timers >>
  /\ cfg' = IF nextImages # 0 THEN nextImages ELSE cfg
  /\ images' = IF nextImages # 0 THEN ImageLists[nextImages] ELSE images
  /\ IF nextIsVisible = isVisible
     THEN /\ onClose' = Calls(FALSE)
          /\ streak' = IF nextImages # 0 THEN 0 ELSE streak
          /\ UNCHANGED << imageInitialParams, isVisible, imageIndex, imageScale,
                          imageTranslate, imageScaleValue, scaleAnimation,
                          imageTranslateValue, releaseAnimation, flyOut,
                          batches, modalBackgroundOpacity >>
     ELSE IF nextImageIndex >= Len(images')
          THEN /\ imageInitialParams' =
                    [i \in 1..Len(images') |-> getInitalParams(images'[i])]
               /\ onClose' = Calls(FALSE)
               /\ streak' = 0
               /\ UNCHANGED << isVisible, imageIndex, imageScale, imageTranslate,
                               imageScaleValue, scaleAnimation, imageTranslateValue,
                               releaseAnimation, flyOut, batches,
                               modalBackgroundOpacity >>
          ELSE /\ batches' = batches \o (IF nextImages # 0 \/ imageIndex # nextImageIndex
                                         THEN Fetch(images', "props", nextImageIndex)
                                         ELSE << >>)
               /\ onNextImagesReceived(images', nextImageIndex,
                                       IF nextIsVisible THEN "shown" ELSE "hidden")
               /\ modalBackgroundOpacity' = Zero

Without(seq, b) == SubSeq(seq, 1, b - 1) \o SubSeq(seq, b + 1, Len(seq))

\* Every request of the constructor's batch has succeeded: Promise.all
\* resolves and setSizeForImages runs (lines 282-288, 568-587).
ConstructorSizesFetched(b) ==
  /\ Tick
  /\ b \in 1..Len(batches)
  /\ batches[b].path = "constructor"
  /\ images' = setSizeForImages(images, batches[b].results)
  /\ batches' = Without(batches, b)
  /\ onClose' = Calls(FALSE)
  /\ UNCHANGED << cfg, imageInitialParams, isVisible, imageIndex, imageScale,
                  imageTranslate, scrollEnabled, panelsVisible, isScrolling,
                  initialTouches, currentTouchesNum, doubleTapTimer, timers,
                  modalBackgroundOpacity, imageScaleValue, scaleAnimation,
                  imageTranslateValue, releaseAnimation, flyOut,
                  streak >>

\* Every request of a componentWillReceiveProps batch has succeeded:
\* onNextImagesReceived(this.setSizeForImages(updatedImages), imageIndex)
\* (lines 312-320).  setSizeForImages sets the sizes in the images of the
\* state as it is by then; for an imageIndex beyond them onNextImagesReceived
\* throws at line 341.
PropsSizesFetched(b) ==
  /\ Tick
  /\ b \in 1..Len(batches)
  /\ batches[b].path = "props"
  /\ images' = setSizeForImages(images, batches[b].results)
  /\ batches' = Without(batches, b)
  /\ IF batches[b].imageIndex < Len(images)
     THEN onNextImagesReceived(images', batches[b].imageIndex, "unchanged")
     ELSE /\ imageInitialParams' =
               [i \in 1..Len(images') |-> getInitalParams(images'[i])]
          /\ onClose' = Calls(FALSE)
          /\ streak' = 0
          /\ UNCHANGED << isVisible, imageIndex, imageScale, imageTranslate,
                          imageScaleValue, scaleAnimation, imageTranslateValue,
                          releaseAnimation, flyOut >>
  /\ UNCHANGED << cfg, scrollEnabled, panelsVisible, isScrolling, initialTouches,
                  currentTouchesNum, doubleTapTimer, timers, modalBackgroundOpacity >>

\* A request of batch b fails: Promise.all rejects and nothing is set.
GetSizeFails(b) ==
  /\ Tick
  /\ b \in 1..Len(batches)
  /\ batches' = Without(batches, b)
  /\ onClose' = Calls(FALSE)
  /\ UNCHANGED << cfg, images, imageInitialParams, isVisible, imageIndex, imageScale,
                  imageTranslate, scrollEnabled, panelsVisible, isScrolling,
                  initialTouches, currentTouchesNum, doubleTapTimer, timers,
                  modalBackgroundOpacity, imageScaleValue, scaleAnimation,
                  imageTranslateValue, releaseAnimation, flyOut,
                  streak >>

(**************************** specification ********************************)
GestureStart == \E touches \in StartTouches : onGestureStart(touches)

GestureMove ==
  \E touches \in MoveTouches : \E d \in Displacements :
    onGestureMove(touches, d.dx, d.dy)

GestureRelease ==
  \E d \in Displacements : \E vy \in Velocities :
    onGestureRelease(d.dx, d.dy, vy)

Scroll == \E x \in ScrollOffsets : onNextImage(x)

\* New props: the same images array or a new one holding a list of lists.
ReceivePropsOf(lists) ==
  \E nextImages \in {0} \cup lists :
  \E nextIsVisible \in BOOLEAN : \E nextImageIndex \in 0..MaxImageIndex :
    componentWillReceiveProps(nextImages, nextIsVisible, nextImageIndex)

ReceiveProps == ReceivePropsOf(SizedLists)

ReceiveUnsizedProps == ReceivePropsOf(UnsizedLists)

ScaleFrame == \E i \in DOMAIN Progress : ScaleAnimationFrame(i)

ReleaseFrame == \E i \in DOMAIN Progress : ReleaseAnimationFrame(i)

FlyOutMoves == \E i \in DOMAIN Progress : FlyOutFrame(i)

ConstructorSizes == \E b \in DOMAIN batches : ConstructorSizesFetched(b)

PropsSizes == \E b \in DOMAIN batches : PropsSizesFetched(b)

GetSizeFailure == \E b \in DOMAIN batches : GetSizeFails(b)

\* The component constructed with images that all have a size: no
\* Image.getSize request is ever made.
Next ==
  \/ GestureStart
  \/ GestureMove
  \/ GestureRelease
  \/ DoubleTapTimerFires
  \/ ScaleFrame
  \/ ScaleAnimationEnds
  \/ ReleaseFrame
  \/ ReleaseAnimationEnds
  \/ FlyOutMoves
  \/ FlyOutCompletes
  \/ CloseButtonPressed
  \/ Scroll
  \/ ReceiveProps

Spec == Init /\ [][Next]_vars

\* The component constructed with images some of which lack a size.
NextFetch ==
  \/ Next
  \/ ConstructorSizes
  \/ PropsSizes
  \/ GetSizeFailure
  \/ ReceiveUnsizedProps

FetchSpec == InitFetch /\ [][NextFetch]_vars

\* Fingers that pinch and lift without travelling.
Pinch == \E touches \in MoveTouches : onGestureMove(touches, 0, 0)

Lift == onGestureRelease(0, 0, Unit)

\* The component constructed with images that all have a size, under taps
\* and pinches alone: no scroll, no new props, no close button, no flick.
NextZoom ==
  \/ GestureStart
  \/ Pinch
  \/ Lift
  \/ DoubleTapTimerFires
  \/ ScaleFrame
  \/ ScaleAnimationEnds
  \/ ReleaseAnimationEnds

ZoomSpec == InitZoom /\ [][NextZoom]_vars

(****************************** properties *********************************)
\* The release being handled is a tap (line 482), a double tap (line 485).
IsTap(d) == d.dx = 0 /\ d.dy = 0 /\ scalesAreEqual(imageScale, imageScaleValue)

IsDoubleTap(d) == IsTap(d) /\ doubleTapTimer

\* The move being handled is a two-finger pinch that writes the animated
\* scale (lines 406, 410-412, 451-457).
IsPinch(touches) ==
  /\ ~isScrolling
  /\ Len(touches) >= 2
  /\ getDistance(IF currentTouchesNum = 1 THEN touches ELSE initialTouches) # 0

\* state.imageIndex is an image of state.images whose initial parameters
\* this.imageInitialParams holds: there is a current image.
OnAnImage == HasImage(imageIndex) /\ HasParams(imageIndex)

\* lo <= a <= hi
Within(a, lo, hi) == ~FLt(a, lo) /\ ~FLt(hi, a)

\* The pan limits of one axis at a scale, and what the claim on pan clamping
\* asks of the translate committed for that axis.
LeftLimit(scale, imageSize) ==
  (ToFixed(FMul(scale, FromInt(imageSize))) - imageSize * Unit) \div 2

RightLimit(scale, imageSize, screenSize) ==
  screenSize * Unit - imageSize * Unit - LeftLimit(scale, imageSize)

Centred(imageSize, screenSize) == ((screenSize - imageSize) * Unit) \div 2

\* An axis whose image size is undefined is neither at least as large as the
\* screen nor smaller: nothing is asked of it.
AxisClamped(scale, imageSize, screenSize, translate) ==
  \/ imageSize = Undefined
  \/ /\ ~IsNaN(translate)
     /\ IF ~FLt(FMul(scale, FromInt(imageSize)), FromInt(screenSize))
        THEN /\ RightLimit(scale, imageSize, screenSize) <= translate
             /\ translate <= LeftLimit(scale, imageSize)
        ELSE translate = Centred(imageSize, screenSize)

ScaleBounds ==
  /\ [] Within(imageScale, getInitialScale(imageIndex), SCALE_MAXIMUM)
  /\ [][\A touches \in MoveTouches : \A d \in Displacements :
          (IsPinch(touches) /\ onGestureMove(touches, d.dx, d.dy)) =>
            Within(imageScaleValue', getInitialScale(imageIndex), SCALE_MAXIMUM)]_vars

\* C3 (pan clamping).  Every release on a current image commits, for each axis, a translate
\* that is not NaN and lies in [rightLimit, leftLimit] when the scaled image
\* is at least as large as the screen, and is the centred value
\* (screenSize - imageSize) / 2 when it is smaller.
PanClamping ==
  [][\A d \in Displacements : \A vy \in Velocities :
       (OnAnImage /\ onGestureRelease(d.dx, d.dy, vy)) =>
         /\ AxisClamped(imageScale', images[imageIndex + 1].width, screenWidth,
                        imageTranslate'.x)
         /\ AxisClamped(imageScale', images[imageIndex + 1].height, screenHeight,
                        imageTranslate'.y)]_vars

SwipeResets ==
  [][\A x \in ScrollOffsets :
       onNextImage(x) =>
         LET page == Round(x, screenWidth)
         IN IF page >= 0 /\ page # imageIndex
            THEN /\ imageIndex' = page
                 /\ page < Len(imageInitialParams)
                 /\ imageScale' = imageInitialParams[page + 1].scale
                 /\ imageTranslate' = imageInitialParams[page + 1].translate
                 /\ imageScaleValue' = imageInitialParams[page + 1].scale
                 /\ imageTranslateValue' = imageInitialParams[page + 1].translate
            ELSE UNCHANGED << imageIndex, imageScale, imageTranslate >>]_vars

\* C6 (scrolling stays available).  After a release on a current image, scrollEnabled is true
\* exactly when the image is left at its initial scale and at its initial
\* translate.
ScrollStaysEnabled ==
  [][\A d \in Displacements : \A vy \in Velocities :
       (OnAnImage /\ onGestureRelease(d.dx, d.dy, vy)) =>
         (scrollEnabled' <=> /\ imageScale' = getInitialScale(imageIndex)
                             /\ imageTranslate' = getInitialTranslate(imageIndex))]_vars

\* C7 (size fetching).  Once the Image.getSize requests of a batch have
\* resolved and the sizes are set, every image carries the size of its own
\* uri: the fetched one if it lacked a size, its original one otherwise.
SizesGoToOwnImages ==
  [][(\E b \in DOMAIN batches : ConstructorSizesFetched(b) \/ PropsSizesFetched(b)) =>
       \A i \in 1..Len(images) :
         /\ images'[i].width = ImageLists[cfg][i].actualWidth
         /\ images'[i].height = ImageLists[cfg][i].actualHeight]_vars

MovementRestrictions ==
  [][\A touches \in MoveTouches : \A d \in Displacements :
       (OnAnImage /\ onGestureMove(touches, d.dx, d.dy)) =>
         LET initial == imageInitialParams[imageIndex + 1].scale
             height == images[imageIndex + 1].height
             horizontal == ~isScrolling /\ imageScale # initial
             vertical ==
               /\ ~isScrolling
               /\ height # Undefined
               /\ \/ FLt(FromInt(screenHeight), FMul(imageScale, FromInt(height)))
                  \/ /\ FLt(FAbs(FSub(imageScale, initial)), SCALE_EPSILON)
                     /\ FLt(FMul(FromInt(height), initial), FromInt(screenHeight))
         IN /\ imageTranslateValue'.x =
                 IF horizontal THEN imageTranslate.x + d.dx ELSE imageTranslateValue.x
            /\ imageTranslateValue'.y =
                 IF vertical THEN imageTranslate.y + d.dy ELSE imageTranslateValue.y]_vars

\* An image at its initial scale that fits the screen is being dragged: the
\* animated translate follows the finger vertically and not horizontally.
MovementRestrictionsWitness ==
  /\ isVisible
  /\ releaseAnimation = << >>
  /\ imageScale = getInitialScale(imageIndex)
  /\ imageTranslateValue.y = imageTranslate.y - screenHeight * Unit
  /\ imageTranslateValue.x = imageTranslate.x

====
